---- MODULE Spec2Model ----
(***************************************************************************)
(* Model of 00-CorpusBuilder/build_corpus.py: the buffered scan of a       *)
(* UniProt XML file by populate_uniprot_corpus and the extraction,         *)
(* filtering and deduplication of sentences into the corpus.               *)
(*                                                                         *)
(* Bytes are one-character strings, a bytes object is a sequence of them.  *)
(* Positions are Python positions (0-based); -1 is "not found".            *)
(***************************************************************************)
EXTENDS Integers, Sequences, FiniteSets, TLC

(***************************************************************************)
(* Bounds of the model.                                                    *)
(***************************************************************************)
MaxHeader == 9
MaxScanEntries == 2
MaxEntries == 2
MaxAdded == 4
RunDepth == 10

(***************************************************************************)
(* Python primitives on bytes / str.                                       *)
(***************************************************************************)
Min(S) == CHOOSE x \in S : \A y \in S : x <= y

\* bytes.find(sub, start): lowest position >= start where sub occurs, else -1
Find(b, sub, start) ==
    LET cands == { i \in start..(Len(b) - Len(sub)) :
                     \A k \in 1..Len(sub) : b[i + k] = sub[k] }
    IN IF cands = {} THEN -1 ELSE Min(cands)

\* b[i:j]
Slice(b, i, j) ==
    LET hi == IF j > Len(b) THEN Len(b) ELSE j
    IN IF i >= hi THEN <<>> ELSE SubSeq(b, i + 1, hi)

\* b[i:]
SliceFrom(b, i) == Slice(b, i, Len(b))

\* sub in text
Contains(text, sub) == Find(text, sub, 0) >= 0

Whitespace == {" ", "\n", "\t"}

\* position of the first byte of b at or after i that lies in set S, else Len(b)
FirstIn(b, S, i) ==
    LET cands == { j \in i..(Len(b) - 1) : b[j + 1] \in S }
    IN IF cands = {} THEN Len(b) ELSE Min(cands)

\* position of the first byte of b at or after i that lies outside S, else Len(b)
FirstNotIn(b, S, i) ==
    LET cands == { j \in i..(Len(b) - 1) : b[j + 1] \notin S }
    IN IF cands = {} THEN Len(b) ELSE Min(cands)

\* b.split()[0] for b that has a non-whitespace byte
FirstWord(b) ==
    LET i == FirstNotIn(b, Whitespace, 0)
    IN Slice(b, i, FirstIn(b, Whitespace, i))

\* b.strip(chars)
LastNotIn(b, S) ==
    LET cands == { j \in 0..(Len(b) - 1) : b[j + 1] \notin S }
    IN IF cands = {} THEN -1 ELSE CHOOSE x \in cands : \A y \in cands : y <= x

Strip(b, S) == Slice(b, FirstNotIn(b, S, 0), LastNotIn(b, S) + 1)

\* str.split(sep): the pieces between the non-overlapping occurrences of sep
RECURSIVE Split(_, _)
Split(text, sep) ==
    LET p == Find(text, sep, 0)
    IN IF p < 0 THEN <<text>>
       ELSE <<Slice(text, 0, p)>> \o Split(SliceFrom(text, p + Len(sep)), sep)

Digits == <<"0", "1", "2", "3", "4", "5", "6", "7", "8", "9">>

IsDigit(c) == \E d \in 1..10 : Digits[d] = c

DigitVal(c) == (CHOOSE d \in 1..10 : Digits[d] = c) - 1

\* int(b) for b made of decimal digits
RECURSIVE ParseInt(_)
ParseInt(b) ==
    IF Len(b) = 0 THEN 0
    ELSE 10 * ParseInt(SubSeq(b, 1, Len(b) - 1)) + DigitVal(b[Len(b)])

\* decimal text of a natural number (used to write the input files)
RECURSIVE ToDigits(_)
ToDigits(n) ==
    IF n < 10 THEN <<Digits[n + 1]>>
    ELSE ToDigits(n \div 10) \o <<Digits[(n % 10) + 1]>>

(***************************************************************************)
(* Constants of populate_uniprot_corpus.                                   *)
(***************************************************************************)
start_tag == <<"<","e","n","t","r","y"," ">>
end_tag == <<"<","/","e","n","t","r","y",">">>

\* re.compile(b"<NAME[^>]*>(?P<g>[^<]+)</NAME>") as its two literal parts
id_pattern ==
    [open |-> <<"<","a","c","c","e","s","s","i","o","n">>,
     close |-> <<"<","/","a","c","c","e","s","s","i","o","n",">">>]
comment_text_pattern ==
    [open |-> <<"<","t","e","x","t">>,
     close |-> <<"<","/","t","e","x","t",">">>]
article_title_pattern ==
    [open |-> <<"<","t","i","t","l","e">>,
     close |-> <<"<","/","t","i","t","l","e",">">>]

required_words == << <<"a","n","t","i">>, <<"i","n","h","i","b","i","t">> >>

sentence_sep == <<".", " ">>
sequence_tag == <<"<","s","e","q","u","e","n","c","e">>
length_attr == <<"l","e","n","g","t","h","=">>
FatalMessage == "Buffer size is too small to get a full entry!"

(***************************************************************************)
(* pattern.finditer(b): the captured groups of the successive matches of   *)
(* open [^>]* ">" ([^<]+) close, scanning from position i.  After the      *)
(* literal open the only way to match is: up to the first ">", then the    *)
(* bytes up to the next "<" (at least one), then the literal close.        *)
(***************************************************************************)
RECURSIVE FindIter(_, _, _)
FindIter(pat, b, i) ==
    LET o == Find(b, pat.open, i)
    IN IF o < 0 THEN <<>>
       ELSE LET gt == FirstIn(b, {">"}, o + Len(pat.open))
                lt == FirstIn(b, {"<"}, gt + 1)
                ok == /\ gt < Len(b)
                      /\ lt > gt + 1
                      /\ Find(b, pat.close, lt) = lt
            IN IF ok THEN <<Slice(b, gt + 1, lt)>>
                            \o FindIter(pat, b, lt + Len(pat.close))
               ELSE FindIter(pat, b, o + 1)

(***************************************************************************)
(* is_useful_for_corpus, already_in_corpus, get_uniprot_entry_length.      *)
(***************************************************************************)
\* only the start of the text is looked at
starts_with_required_word(text) ==
    \E w \in 1..Len(required_words) : Find(text, required_words[w], 0) = 0

is_useful_for_corpus(text) ==
    \E w \in 1..Len(required_words) : Contains(text, required_words[w])

already_last_in_corpus(text, corpus_) ==
    Len(corpus_) > 0 /\ corpus_[Len(corpus_)].text = text

already_in_corpus(text, corpus_) ==
    \E e \in 1..Len(corpus_) : corpus_[e].text = text

\* result: [ok |-> TRUE, value |-> n], or ok = FALSE where Python raises
get_uniprot_entry_length(xml) ==
    LET p1 == Find(xml, sequence_tag, 0)
        p2 == Find(xml, length_attr, p1)
        attribute == FirstWord(SliceFrom(xml, p2))
        eq == { i \in 1..Len(attribute) : attribute[i] = "=" }
        at == CHOOSE i \in eq : TRUE
        value == Strip(SubSeq(attribute, at + 1, Len(attribute)), {"\""})
    IN IF p1 < 0 THEN [ok |-> TRUE, value |-> -1]
       ELSE IF p2 < 0 THEN [ok |-> TRUE, value |-> -1]
       ELSE IF Cardinality(eq) # 1 THEN [ok |-> FALSE, value |-> 0]
       ELSE IF Len(value) = 0 \/ \E i \in 1..Len(value) : ~IsDigit(value[i])
            THEN [ok |-> FALSE, value |-> 0]
       ELSE [ok |-> TRUE, value |-> ParseInt(value)]

(***************************************************************************)
(* CorpusEntry and its metadata.  An OrderedDict is an object: the heap is  *)
(* the sequence of the dictionaries created so far (functions of their     *)
(* keys), and a reference to one is its index.  A CorpusEntry holds its    *)
(* text and a reference to its meta dictionary.                            *)
(***************************************************************************)
SetKey(m, key, value) ==
    [k \in (DOMAIN m) \cup {key} |-> IF k = key THEN value ELSE m[k]]

\* the entry refers to the dictionary it was given
CorpusEntryShared(h, text, m, type) ==
    [heap |-> [h EXCEPT ![m] = SetKey(@, "type", type)],
     entry |-> [text |-> text, meta |-> m]]

\* CorpusEntry(text, meta=meta), whose meta is the copy OrderedDict(meta),
\* followed by add_meta("type", type): the heap and the entry that result
CorpusEntry(h, text, m, type) ==
    LET r == Len(h) + 1
    IN [heap |-> Append(h, SetKey(h[m], "type", type)),
        entry |-> [text |-> text, meta |-> r]]

\* a list of entries with the dictionaries in place of the references
Deref(c, h) ==
    [i \in 1..Len(c) |-> [text |-> c[i].text, meta |-> h[c[i].meta]]]

\* for match in id_pattern.finditer(xml_entry): meta["ID"] = ...
RECURSIVE SetIDs(_, _)
SetIDs(m, ids) ==
    IF ids = <<>> THEN m
    ELSE SetIDs(SetKey(m, "ID", Strip(Head(ids), Whitespace)), Tail(ids))

RECURSIVE SplitAll(_)
SplitAll(texts) ==
    IF texts = <<>> THEN <<>>
    ELSE <<Split(Head(texts), sentence_sep)>> \o SplitAll(Tail(texts))

\* the sentences of every match of a pattern, one list per match
Sentences(pat, xml) == SplitAll(FindIter(pat, xml, 0))

(***************************************************************************)
(* State of one call of populate_uniprot_corpus.                           *)
(*   file, buffer_size, max_added, max_length : the inputs of the run      *)
(*   fp        : position of the file object (fp.tell())                   *)
(*   todo      : the sentences still to visit in the current pass, one     *)
(*               list per remaining regex match                            *)
(*   eligible  : outcome of the length test of the current record          *)
(*   emitted   : the records cut out of the buffer so far (xml_entry and   *)
(*               its absolute offset), in order                            *)
(*   heap      : the metadata dictionaries created so far                  *)
(*   meta      : reference to the base metadata of the current record      *)
(*   nloads    : number of fp.read calls so far                            *)
(*   exc       : the exception raised, "none" if none                      *)
(*   returned  : <<corpus>> once the function has returned                 *)
(*   pc        : "while" (line 97), "inner" (117), "comments" (135),       *)
(*               "titles" (152), "seek" (169), "except" (181),             *)
(*               "else" (183), "returned", "raised"                        *)
(***************************************************************************)
VARIABLES file, buffer_size, max_added, max_length,
          corpus, corpus_size, size, nused, ntotal, nuniprot_entries,
          fp, current_position, buffer, begin_pos, end_pos, counter,
          xml_entry, meta, heap, todo, eligible, emitted, nloads, exc,
          returned, pc

vars == <<file, buffer_size, max_added, max_length,
          corpus, corpus_size, size, nused, ntotal, nuniprot_entries,
          fp, current_position, buffer, begin_pos, end_pos, counter,
          xml_entry, meta, heap, todo, eligible, emitted, nloads, exc,
          returned, pc>>

\* the current state as one value
Cur ==
    [file |-> file, buffer_size |-> buffer_size, max_added |-> max_added,
     max_length |-> max_length, corpus |-> corpus, corpus_size |-> corpus_size,
     size |-> size, nused |-> nused, ntotal |-> ntotal,
     nuniprot_entries |-> nuniprot_entries, fp |-> fp,
     current_position |-> current_position, buffer |-> buffer,
     begin_pos |-> begin_pos, end_pos |-> end_pos, counter |-> counter,
     xml_entry |-> xml_entry, meta |-> meta, heap |-> heap, todo |-> todo,
     eligible |-> eligible, emitted |-> emitted, nloads |-> nloads,
     exc |-> exc, returned |-> returned, pc |-> pc]

\* the next state is the value n
Becomes(n) ==
    /\ file' = n.file /\ buffer_size' = n.buffer_size
    /\ max_added' = n.max_added /\ max_length' = n.max_length
    /\ corpus' = n.corpus /\ corpus_size' = n.corpus_size
    /\ size' = n.size /\ nused' = n.nused /\ ntotal' = n.ntotal
    /\ nuniprot_entries' = n.nuniprot_entries /\ fp' = n.fp
    /\ current_position' = n.current_position /\ buffer' = n.buffer
    /\ begin_pos' = n.begin_pos /\ end_pos' = n.end_pos
    /\ counter' = n.counter /\ xml_entry' = n.xml_entry /\ meta' = n.meta
    /\ heap' = n.heap /\ nloads' = n.nloads
    /\ todo' = n.todo /\ eligible' = n.eligible /\ emitted' = n.emitted
    /\ exc' = n.exc /\ returned' = n.returned /\ pc' = n.pc

\* lines 73-95: the state on entry of the while loop; c0 is the caller's
\* corpus, given with its dictionaries
InitState(f, B, k, L, c0) ==
    [file |-> f, buffer_size |-> B, max_added |-> k, max_length |-> L,
     corpus |-> [i \in 1..Len(c0) |-> [text |-> c0[i].text, meta |-> i]],
     heap |-> [i \in 1..Len(c0) |-> c0[i].meta], nloads |-> 0,
     corpus_size |-> Len(c0), size |-> Len(f),
     nused |-> 0, ntotal |-> 0, nuniprot_entries |-> 0,
     fp |-> 0, current_position |-> 0, buffer |-> <<>>,
     begin_pos |-> -1, end_pos |-> -1, counter |-> 0,
     xml_entry |-> <<>>, meta |-> 0, todo |-> <<>>,
     eligible |-> FALSE, emitted |-> <<>>, exc |-> "none",
     returned |-> <<>>, pc |-> "while"]

(***************************************************************************)
(* Lines 97-116: loop test, cap test, one load of the buffer.              *)
(***************************************************************************)
\* line 97: the test of the outer while
LoopContinuesAtEnd(position, size_) == position <= size_

LoopContinues(position, size_) == position < size_

\* lines 107 and 177: the cap test
CapReachedLate(n, k) == n > k

CapReached(n, k) == n >= k

OuterLoop(s) ==
    IF ~LoopContinues(s.current_position, s.size) THEN [s EXCEPT !.pc = "else"]
    ELSE IF CapReached(s.nused, s.max_added) THEN [s EXCEPT !.pc = "else"]
    ELSE LET buf == Slice(s.file, s.fp, s.fp + s.buffer_size)
         IN [s EXCEPT !.current_position = s.fp,
                      !.buffer = buf,
                      !.nloads = @ + 1,
                      !.fp = s.fp + Len(buf),
                      !.begin_pos = Find(buf, start_tag, 0),
                      !.counter = 0,
                      !.pc = "inner"]

(***************************************************************************)
(* Start of a pass over the sentences: the comment pass, then the title    *)
(* pass, then line 169.  A pass without a match is not entered.            *)
(***************************************************************************)
EnterTitles(s) ==
    LET t == Sentences(article_title_pattern, s.xml_entry)
    IN IF t = <<>> THEN [s EXCEPT !.todo = <<>>, !.pc = "seek"]
       ELSE [s EXCEPT !.todo = t, !.pc = "titles"]

\* the comment pass is left out
SkipComments(s) == EnterTitles(s)

EnterComments(s) ==
    LET t == Sentences(comment_text_pattern, s.xml_entry)
    IN IF t = <<>> THEN EnterTitles(s)
       ELSE [s EXCEPT !.todo = t, !.pc = "comments"]

(***************************************************************************)
(* Lines 117-133 and 171-175: the test of the inner while, the search of   *)
(* the end tag, the length filter and the record's base metadata.          *)
(***************************************************************************)
\* line 125: the length filter
EligibleUpTo(length, max_length_) == length <= max_length_

Unfiltered(length, max_length_) == TRUE

Eligible(length, max_length_) == length < max_length_

\* line 174: where the file position is set when an entry is cut by the
\* end of the load
RewindToLoadStart(position, begin) == position

RewindTarget(position, begin) == position + begin

InnerLoop(s) ==
    IF s.begin_pos <= -1 THEN [s EXCEPT !.pc = "while"]
    ELSE
      LET e == Find(s.buffer, end_tag, s.begin_pos)
      IN IF e > 0 THEN
           LET xml == Slice(s.buffer, s.begin_pos, e + Len(end_tag))
               len == get_uniprot_entry_length(xml)
               s1 == [s EXCEPT !.end_pos = e,
                               !.nuniprot_entries = @ + 1,
                               !.counter = @ + 1,
                               !.xml_entry = xml,
                               !.emitted = Append(@,
                                   [offset |-> s.current_position + s.begin_pos,
                                    xml |-> xml])]
           IN IF ~len.ok
                THEN [s1 EXCEPT !.exc = "ValueError", !.pc = "raised"]
              ELSE IF Eligible(len.value, s.max_length)
                THEN EnterComments(
                       [s1 EXCEPT !.eligible = TRUE,
                                  !.heap = Append(@,
                                             SetIDs([source |-> "Uniprot"],
                                                    FindIter(id_pattern, xml, 0))),
                                  !.meta = Len(s.heap) + 1])
              ELSE [s1 EXCEPT !.eligible = FALSE, !.pc = "seek"]
         ELSE IF s.counter = 0
           THEN [s EXCEPT !.end_pos = e, !.exc = FatalMessage, !.pc = "raised"]
         ELSE [s EXCEPT !.end_pos = e,
                        !.fp = RewindTarget(s.current_position, s.begin_pos),
                        !.pc = "while"]

(***************************************************************************)
(* Lines 139-150 and 155-166: one sentence of the current pass.            *)
(***************************************************************************)
AppendEntryFront(corpus_, entry) == <<entry>> \o corpus_

AppendEntry(corpus_, entry) == Append(corpus_, entry)

\* lines 144 and 160
CapExceededLate(n, k) == n > k + 1

CapExceeded(n, k) == n > k

Sentence(s, type) ==
    LET text == Head(Head(s.todo))
        s1 == [s EXCEPT !.ntotal = @ + 1]
        accept == is_useful_for_corpus(text)
                    /\ ~already_in_corpus(text, s.corpus)
        brk == accept /\ CapExceeded(s.nused + 1, s.max_added)
        new == CorpusEntry(s.heap, text, s.meta, type)
        s2 == IF ~accept THEN s1
              ELSE IF brk THEN [s1 EXCEPT !.nused = @ + 1]
              ELSE [s1 EXCEPT !.nused = @ + 1,
                              !.heap = new.heap,
                              !.corpus = AppendEntry(@, new.entry)]
        rest == IF brk \/ Len(Head(s.todo)) = 1 THEN Tail(s.todo)
                ELSE <<Tail(Head(s.todo))>> \o Tail(s.todo)
    IN IF rest # <<>> THEN [s2 EXCEPT !.todo = rest]
       ELSE IF type = "comment" THEN EnterTitles(s2)
       ELSE [s2 EXCEPT !.todo = <<>>, !.pc = "seek"]

(***************************************************************************)
(* Lines 169 and 177-179: move the file position behind the record, test   *)
(* the cap, search the next start tag in the buffer.                       *)
(***************************************************************************)
Seek(s) ==
    LET s1 == [s EXCEPT !.fp = s.current_position + s.end_pos + Len(end_tag)]
    IN IF CapReached(s.nused, s.max_added) THEN [s1 EXCEPT !.pc = "while"]
       ELSE [s1 EXCEPT !.begin_pos = Find(s.buffer, start_tag, s.begin_pos + 1),
                       !.pc = "inner"]

\* the interrupt not caught
InterruptPropagates(s) == [s EXCEPT !.exc = "KeyboardInterrupt", !.pc = "raised"]

\* lines 181-182: KeyboardInterrupt raised inside the try block
Interrupted(s) == [s EXCEPT !.exc = "KeyboardInterrupt", !.pc = "except"]

\* lines 183-187: the function returns the corpus
Finish(s) == [s EXCEPT !.returned = <<s.corpus>>, !.pc = "returned"]

Running == {"while", "inner", "comments", "titles", "seek"}

\* one step of an uninterrupted run
Step(s) ==
    CASE s.pc = "while" -> OuterLoop(s)
      [] s.pc = "inner" -> InnerLoop(s)
      [] s.pc = "comments" -> Sentence(s, "comment")
      [] s.pc = "titles" -> Sentence(s, "article")
      [] s.pc = "seek" -> Seek(s)
      [] s.pc \in {"else", "except"} -> Finish(s)
      [] OTHER -> s

\* the state after 2^n steps of an uninterrupted run from state s, or the
\* final state if the run ends before
RECURSIVE Steps(_, _)
Steps(s, n) ==
    IF s.pc \in {"returned", "raised"} THEN s
    ELSE IF n = 0 THEN Step(s)
    ELSE Steps(Steps(s, n - 1), n - 1)

\* the final state of the uninterrupted run that starts in state s (no run
\* of the model has more than 2^RunDepth steps)
RunToEnd(s) == Steps(s, RunDepth)

(***************************************************************************)
(* Actions.                                                                *)
(***************************************************************************)
Load == pc = "while" /\ Becomes(OuterLoop(Cur))

NextEntry == pc = "inner" /\ Becomes(InnerLoop(Cur))

CommentSentence == pc = "comments" /\ Becomes(Sentence(Cur, "comment"))

TitleSentence == pc = "titles" /\ Becomes(Sentence(Cur, "article"))

SeekPastEntry == pc = "seek" /\ Becomes(Seek(Cur))

KeyboardInterrupt == pc \in Running /\ Becomes(Interrupted(Cur))

Return == pc \in {"else", "except"} /\ Becomes(Finish(Cur))

Next ==
    \/ Load
    \/ NextEntry
    \/ CommentSentence
    \/ TitleSentence
    \/ SeekPastEntry
    \/ KeyboardInterrupt
    \/ Return

(***************************************************************************)
(* Input files.  A file is a header, then entries separated and followed   *)
(* by a gap; an entry is "<entry >", accession, text and title elements,   *)
(* an optional <sequence length="N" > element, and "</entry>".             *)
(***************************************************************************)
RECURSIVE Repeat(_, _)
Repeat(c, n) == IF n = 0 THEN <<>> ELSE <<c>> \o Repeat(c, n - 1)

RECURSIVE Concat(_)
Concat(ss) == IF ss = <<>> THEN <<>> ELSE Head(ss) \o Concat(Tail(ss))

Element(pat, text) == pat.open \o <<">">> \o text \o pat.close

RECURSIVE Elements(_, _)
Elements(pat, texts) ==
    IF texts = <<>> THEN <<>>
    ELSE Element(pat, Head(texts)) \o Elements(pat, Tail(texts))

NoLength == -1

SequenceElement(n) ==
    IF n = NoLength THEN <<>>
    ELSE sequence_tag \o <<" ">> \o length_attr \o <<"\"">> \o ToDigits(n)
           \o <<"\"", " ", ">">>

MakeEntry(ids, comments, titles, n) ==
    start_tag \o <<">">> \o Elements(id_pattern, ids)
      \o Elements(comment_text_pattern, comments)
      \o Elements(article_title_pattern, titles)
      \o SequenceElement(n) \o end_tag

anti == <<"a","n","t","i">>
anti1 == <<"a","n","t","i","1">>
anti2 == <<"a","n","t","i","2">>
anti4 == <<"a","n","t","i","4">>
anti5 == <<"a","n","t","i","5">>
anti6 == <<"a","n","t","i","6">>
inhibit3 == <<"i","n","h","i","b","i","t","3">>
anti1_no_anti2 == <<"a","n","t","i","1","."," ","n","o","."," ","a","n","t","i","2">>
anti1_inhibit3 == <<"a","n","t","i","1","."," ","i","n","h","i","b","i","t","3">>
anti1_anti5 == <<"a","n","t","i","1","."," ","a","n","t","i","5">>

\* two accessions, length 50, a comment of three sentences, a title of two
EntryPQ == MakeEntry(<< <<"P">>, <<"Q">> >>, <<anti1_no_anti2>>,
                     <<anti1_inhibit3>>, 50)
\* length 150
EntryR == MakeEntry(<< <<"R">> >>, <<anti4>>, <<>>, 150)
\* length exactly 100
EntryS == MakeEntry(<< <<"S">> >>, <<anti1>>, <<>>, 100)
\* no accession, no sequence element, two comments
EntryN == MakeEntry(<<>>, <<anti1_anti5, anti6>>, <<>>, NoLength)

RichEntries == {EntryPQ, EntryR, EntryS, EntryN}

\* smallest entries, for the scan
EntryTiny == MakeEntry(<<>>, <<>>, <<>>, NoLength)
EntrySmall == MakeEntry(<<>>, <<anti>>, <<anti2>>, NoLength)

ScanEntries == {EntryTiny, EntrySmall}

SeqsUpTo(S, n) == UNION { [1..m -> S] : m \in 0..n }

RECURSIVE Join(_, _)
Join(entries, gap) ==
    IF entries = <<>> THEN <<>>
    ELSE Head(entries) \o gap \o Join(Tail(entries), gap)

MakeFile(h, entries, g) == Repeat("h", h) \o Join(entries, Repeat("\n", g))

GapSizes == {0, 1}

ScanFiles ==
    { MakeFile(h, es, g) : h \in 0..MaxHeader,
                           es \in SeqsUpTo(ScanEntries, MaxScanEntries),
                           g \in GapSizes }

RichFiles == { MakeFile(0, es, 1) : es \in SeqsUpTo(RichEntries, MaxEntries) }

Max(S) == CHOOSE x \in S : \A y \in S : y <= x

\* the corpus handed in by the caller
CallerEntry == [text |-> anti1, meta |-> [source |-> "caller"]]

InitialCorpora == { <<>>, <<CallerEntry>> }

MaxLengths == {1, 100}

Starts(n) ==
    /\ file = n.file /\ buffer_size = n.buffer_size
    /\ max_added = n.max_added /\ max_length = n.max_length
    /\ corpus = n.corpus /\ corpus_size = n.corpus_size
    /\ size = n.size /\ nused = n.nused /\ ntotal = n.ntotal
    /\ nuniprot_entries = n.nuniprot_entries /\ fp = n.fp
    /\ current_position = n.current_position /\ buffer = n.buffer
    /\ begin_pos = n.begin_pos /\ end_pos = n.end_pos
    /\ counter = n.counter /\ xml_entry = n.xml_entry /\ meta = n.meta
    /\ heap = n.heap /\ nloads = n.nloads
    /\ todo = n.todo /\ eligible = n.eligible /\ emitted = n.emitted
    /\ exc = n.exc /\ returned = n.returned /\ pc = n.pc

\* the runs on the rich files: the buffer holds the whole file, or the
\* longest entry and a few bytes more
Init ==
    \E f \in RichFiles, k \in 0..MaxAdded, L \in MaxLengths,
       c0 \in InitialCorpora :
      \E B \in {Len(f) + 1}
                 \cup { Max({Len(e) : e \in RichEntries}) + d : d \in {0, 1} } :
        Starts(InitState(f, B, k, L, c0))

\* the runs on the small files, with every buffer size
ScanInit ==
    \E f \in ScanFiles, k \in {1, MaxAdded} :
      \E B \in 1..(Len(f) + 1) :
        Starts(InitState(f, B, k, 100, <<>>))

\* the runs on the rich files with the default threshold and no corpus
\* handed in, where the interrupted runs are compared with the whole run
InterruptInit ==
    \E f \in RichFiles, k \in 0..MaxAdded :
      \E B \in {Len(f) + 1}
                 \cup { Max({Len(e) : e \in RichEntries}) + d : d \in {0, 1} } :
        Starts(InitState(f, B, k, 100, <<>>))

Spec == Init /\ [][Next]_vars

InterruptSpec == InterruptInit /\ [][Next]_vars

ScanSpec == ScanInit /\ [][Next]_vars

(***************************************************************************)
(* What the properties speak about.                                        *)
(***************************************************************************)
IsPrefix(a, b) == Len(a) <= Len(b) /\ SubSeq(b, 1, Len(a)) = a

\* the offsets of the start tags of a file
StartOffsets(f) == { i \in 0..(Len(f) - 1) : Find(f, start_tag, i) = i }

RECURSIVE Ascending(_)
Ascending(S) ==
    IF S = {} THEN <<>> ELSE <<Min(S)>> \o Ascending(S \ {Min(S)})

\* the record that starts at offset i of file f: up to the end of the next
\* end tag
RecordAt(f, i) ==
    [offset |-> i,
     xml |-> Slice(f, i, Find(f, end_tag, i) + Len(end_tag))]

\* the <entry ...>...</entry> records of a file of well-formed entries, in
\* file order
FileRecords(f) ==
    LET offs == Ascending(StartOffsets(f))
    IN [k \in 1..Len(offs) |-> RecordAt(f, offs[k])]

EmittedOffsets == { emitted[i].offset : i \in 1..Len(emitted) }

\* the scan has ended normally and the cap was not reached
Completed == pc = "returned" /\ exc = "none" /\ nused < max_added

\* the corpus handed in by the caller
InitialCorpus == Deref(SubSeq(corpus, 1, corpus_size), heap)

\* the final state of the run on the same inputs with a buffer as large as
\* the file
WholeFileRun ==
    RunToEnd(InitState(file, size, max_added, max_length, InitialCorpus))

\* the final state of the uninterrupted run on the same inputs
UninterruptedRun ==
    RunToEnd(InitState(file, buffer_size, max_added, max_length,
                       InitialCorpus))

\* the next step reads a load
AboutToLoad == pc = "while" /\ current_position < size /\ nused < max_added

(***************************************************************************)
(* C1: when the scan completes without the fatal error and without         *)
(* reaching the cap, the records handed to the extractor are exactly the   *)
(* records of the file, in file order, each one once.                      *)
(***************************************************************************)
C1_EveryRecordOnce == Completed => emitted = FileRecords(file)

(***************************************************************************)
(* C2: boundary invariance: the records emitted with a buffer smaller      *)
(* than the file are the records emitted with a buffer that holds the      *)
(* whole file.                                                             *)
(***************************************************************************)
C2_BoundaryInvariance ==
    (Completed /\ buffer_size < size)
      => /\ WholeFileRun.pc = "returned"
         /\ emitted = WholeFileRun.emitted

(***************************************************************************)
(* C3: a start tag whose end tag lies beyond the load never raises the     *)
(* fatal "Buffer size is too small" error when the record fits in          *)
(* buffer_size bytes, also when it is the first start tag of the load.     *)
(***************************************************************************)
C3_NoFalseFatal ==
    exc = FatalMessage
      => Len(RecordAt(file, current_position + begin_pos).xml) > buffer_size

(***************************************************************************)
(* C8: the file position never exceeds the file size, and a load never     *)
(* starts past the first byte of the start tag of a record that has not    *)
(* been emitted.                                                           *)
(***************************************************************************)
C8_CursorSkipsNoEntry ==
    /\ fp <= size
    /\ AboutToLoad
         => \A i \in StartOffsets(file) \ EmittedOffsets : fp <= i

LengthValues == {50, 100, 150}

\* the length a record of the input files declares: the N of its
\* <sequence length="N" > element, NoLength without such an element
DeclaredLength(xml) ==
    IF \E n \in LengthValues : Contains(xml, SequenceElement(n))
      THEN CHOOSE n \in LengthValues : Contains(xml, SequenceElement(n))
      ELSE NoLength

\* a record of the file is being processed (lines 123-169)
InRecord == pc \in {"comments", "titles", "seek"}

\* the number of entries appended to the corpus in this run
Added == Len(corpus) - corpus_size

(***************************************************************************)
(* C4: cap enforcement: at every point of the run at most max_added        *)
(* entries have been appended, and once max_added entries have been        *)
(* appended no step appends another one.                                   *)
(***************************************************************************)
C4_CapEnforced ==
    /\ [](Added <= max_added)
    /\ [][Added >= max_added => corpus' = corpus]_vars

\* the cap is reached and a further eligible sentence has been suppressed
C4_Witness == max_added >= 1 /\ Added = max_added /\ nused > max_added

(***************************************************************************)
(* C5: deduplication: no entry appended during the run has the text of an  *)
(* entry that precedes it in the corpus, be it one of the caller's or one  *)
(* appended earlier in the run.                                            *)
(***************************************************************************)
C5_NoDuplicateText ==
    \A i \in (corpus_size + 1)..Len(corpus) :
      \A j \in 1..(i - 1) : corpus[j].text # corpus[i].text

\* two eligible records with the sentence "anti1" have been processed and
\* the corpus holds it once
C5_Witness ==
    /\ pc = "seek" /\ eligible /\ xml_entry = EntryN
    /\ Len(emitted) = 2 /\ emitted[1].xml = EntryPQ
    /\ max_length = 100 /\ corpus_size = 0
    /\ Cardinality({ i \in 1..Len(corpus) : corpus[i].text = anti1 }) = 1

(***************************************************************************)
(* C6: length filter: a record is eligible for extraction iff its          *)
(* declared length is strictly below max_length, a record without a        *)
(* length attribute counting as -1.                                        *)
(***************************************************************************)
C6_LengthFilter ==
    InRecord => (eligible <=> DeclaredLength(xml_entry) < max_length)

\* a record of length exactly 100 has been excluded with threshold 100
C6_Witness ==
    /\ pc = "seek" /\ xml_entry = EntryS /\ max_length = 100 /\ ~eligible

(***************************************************************************)
(* C7: the ID of every entry produced from a record is the first           *)
(* accession of the record.                                                *)
(***************************************************************************)
C7_FirstAccession ==
    [][Len(corpus') > Len(corpus)
         => LET ids == FindIter(id_pattern, xml_entry, 0)
            IN ids # <<>>
                 => heap'[corpus'[Len(corpus')].meta].ID
                      = Strip(ids[1], Whitespace)]_vars

(***************************************************************************)
(* C9 as stated: a record that fails the length filter changes neither     *)
(* the corpus nor any counter of the run, the count of uniprot entries     *)
(* read included, and no extraction is started.                            *)
(***************************************************************************)
C9_NoCounterAtAll ==
    [][(\/ Len(emitted') > Len(emitted)
              /\ DeclaredLength(xml_entry') >= max_length
        \/ pc = "seek" /\ DeclaredLength(xml_entry) >= max_length)
         => /\ corpus' = corpus /\ nused' = nused /\ ntotal' = ntotal
            /\ nuniprot_entries' = nuniprot_entries
            /\ todo' = <<>> /\ pc' \notin {"comments", "titles"}]_vars

(***************************************************************************)
(* C9 amended: a record that fails the length filter changes neither the   *)
(* corpus nor the sentence counters (ntotal, nused) and no extraction is   *)
(* started; it is counted once in nuniprot_entries.                        *)
(***************************************************************************)
C9_OnlyEntryCounter ==
    [][(\/ Len(emitted') > Len(emitted)
              /\ DeclaredLength(xml_entry') >= max_length
        \/ pc = "seek" /\ DeclaredLength(xml_entry) >= max_length)
         => /\ corpus' = corpus /\ nused' = nused /\ ntotal' = ntotal
            /\ nuniprot_entries' = nuniprot_entries
                                     + (IF pc = "inner" THEN 1 ELSE 0)
            /\ todo' = <<>> /\ pc' \notin {"comments", "titles"}]_vars

\* a record of length 150 has been read and skipped with threshold 100
C9_Witness ==
    /\ pc = "inner" /\ counter >= 1 /\ xml_entry = EntryR /\ max_length = 100
    /\ nuniprot_entries = 1 /\ ntotal = 0 /\ Added = 0

(***************************************************************************)
(* C10: a KeyboardInterrupt is caught: nothing is propagated, the function *)
(* returns the corpus as it was when the interrupt arrived, and that is a  *)
(* prefix of the corpus the uninterrupted run on the same input returns.   *)
(***************************************************************************)
C10_InterruptReturnsPrefix ==
    exc = "KeyboardInterrupt"
      => /\ pc \in {"except", "returned"}
         /\ pc = "returned"
              => /\ returned = <<corpus>>
                 /\ LET u == UninterruptedRun
                    IN /\ u.pc \in {"returned", "raised"}
                       /\ u.pc = "returned"
                            => IsPrefix(Deref(corpus, heap),
                                        Deref(u.returned[1], u.heap))

\* interrupted after the first append of a run that would append more
C10_Witness ==
    /\ exc = "KeyboardInterrupt" /\ pc = "returned"
    /\ Added = 1
    /\ LET u == UninterruptedRun
       IN u.pc = "returned" /\ Len(u.returned[1]) > Len(corpus)

(***************************************************************************)
(* C11: a load that holds a start tag with no end tag after it, before any *)
(* record was emitted from that load, raises the fatal error at once: the  *)
(* run ends there, uncaught, and returns nothing.  This is what happens    *)
(* whenever an entry is longer than the buffer: a run over a file with     *)
(* such an entry never completes normally.                                 *)
(***************************************************************************)
C11_OversizedEntryIsFatal ==
    /\ exc = FatalMessage => pc = "raised" /\ returned = <<>>
    /\ Completed => \A r \in 1..Len(FileRecords(file)) :
                       Len(FileRecords(file)[r].xml) <= buffer_size

\* the state left by the rewind of lines 173-175: an entry was cut by the end
\* of the load and the file position was set back to its start tag
Rewound == pc = "while" /\ begin_pos > -1 /\ end_pos = -1

(***************************************************************************)
(* C12 as stated: when the file is shorter than the buffer there is        *)
(* exactly one load, which finds every entry, and the rewind is never      *)
(* taken.                                                                  *)
(***************************************************************************)
C12_ExactlyOneLoad ==
    size < buffer_size
        => /\ nloads <= 1
           /\ ~Rewound
           /\ Completed => emitted = FileRecords(file)

(***************************************************************************)
(* C12 amended: when the file is shorter than the buffer, every entry is   *)
(* found in the first load and neither the rewind nor the fatal error      *)
(* happens; the first load is followed by one or two more, read from       *)
(* behind the last entry, which hold no start tag and emit nothing: there  *)
(* are at most three loads (none when the file is empty).                  *)
(***************************************************************************)
C12_FirstLoadFindsAll ==
    size < buffer_size
        => /\ nloads <= 3
           /\ ~Rewound
           /\ exc # FatalMessage
           /\ nloads = 1 => current_position = 0 /\ buffer = file
           /\ nloads >= 2 => /\ Find(buffer, start_tag, 0) = -1
                             /\ current_position > 0
                             /\ exc = "none" /\ nused < max_added
                                  => emitted = FileRecords(file)
           /\ Completed => emitted = FileRecords(file)
           /\ Completed /\ size > 0 => nloads >= 2

C12_Witness ==
    /\ size < buffer_size
    /\ Completed
    /\ nloads = 3
    /\ Len(emitted) = 2

\* the entries appended by the run, as positions of the corpus list
Appended == (corpus_size + 1)..Len(corpus)

(***************************************************************************)
(* C13: every entry appended by the run has source "Uniprot" and a type,   *)
(* "comment" when the comment pass appended it and "article" when the      *)
(* title pass did, and an ID exactly when its record has an accession.     *)
(* Each entry has a metadata dictionary of its own: no two entries share   *)
(* one, none shares the base metadata of the record, the base metadata     *)
(* never gets a type, and appending an entry changes neither the metadata  *)
(* of the entries already there nor the base metadata.                     *)
(***************************************************************************)
C13_OwnMetadata ==
    /\ [](/\ \A i \in Appended :
                /\ heap[corpus[i].meta].source = "Uniprot"
                /\ "type" \in DOMAIN heap[corpus[i].meta]
                /\ heap[corpus[i].meta].type \in {"comment", "article"}
                /\ corpus[i].meta # meta
                /\ \A j \in 1..Len(corpus) :
                      i # j => corpus[i].meta # corpus[j].meta
          /\ meta # 0 => /\ heap[meta].source = "Uniprot"
                         /\ "type" \notin DOMAIN heap[meta])
    /\ [][Len(corpus') > Len(corpus)
            => LET new == heap'[corpus'[Len(corpus')].meta]
                   ids == FindIter(id_pattern, xml_entry, 0)
               IN /\ pc = "comments" => new.type = "comment"
                  /\ pc = "titles" => new.type = "article"
                  /\ pc \in {"comments", "titles"}
                  /\ ("ID" \in DOMAIN new) <=> (ids # <<>>)
                  /\ DOMAIN new \subseteq {"source", "ID", "type"}
                  /\ meta' = meta
                  /\ heap'[meta] = heap[meta]
                  /\ Deref(corpus, heap') = Deref(corpus, heap)]_vars

\* a comment and a title of the same record were appended, and both entries
\* carry the record's accession
C13_Witness ==
    \E i, j \in Appended :
        /\ heap[corpus[i].meta].type = "comment"
        /\ heap[corpus[j].meta].type = "article"
        /\ "ID" \in DOMAIN heap[corpus[i].meta]
        /\ heap[corpus[i].meta].ID = heap[corpus[j].meta].ID
        /\ j = i + 1

(***************************************************************************)
(* C14: every step leaves the corpus list as it is or appends one entry at *)
(* its end, and leaves every entry already in the list as it was, text     *)
(* and metadata; so the entries handed in by the caller stay the first     *)
(* entries of the corpus in every reachable state.                         *)
(***************************************************************************)
C14_GrowsAtEnd ==
    /\ [](corpus_size <= Len(corpus) /\ InitialCorpus \in InitialCorpora)
    /\ [][/\ corpus_size' = corpus_size
          /\ \/ corpus' = corpus
             \/ /\ Len(corpus') = Len(corpus) + 1
                /\ SubSeq(corpus', 1, Len(corpus)) = corpus
          /\ Deref(corpus, heap') = Deref(corpus, heap)]_vars

\* two entries were appended behind the entry of the caller
C14_Witness ==
    /\ corpus_size = 1
    /\ Added >= 2
    /\ Deref(corpus, heap)[1] = CallerEntry

(***************************************************************************)
(* The inputs of the examples: the sentences of the keyword filter and the *)
(* two entries of the end-to-end scenario.                                 *)
(***************************************************************************)
\* "This peptide is an antimicrobial agent."
antimicrobial_agent ==
    <<"T","h","i","s"," ","p","e","p","t","i","d","e"," ","i","s"," ","a",
      "n"," ","a","n","t","i","m","i","c","r","o","b","i","a","l"," ","a",
      "g","e","n","t",".">>

\* "This peptide has no known function."
no_known_function ==
    <<"T","h","i","s"," ","p","e","p","t","i","d","e"," ","h","a","s"," ",
      "n","o"," ","k","n","o","w","n"," ","f","u","n","c","t","i","o","n",
      ".">>

\* "Anti-sense Inhibitor. inhibit3": the triggers are case-sensitive
Anti_Inhibitor_inhibit3 ==
    <<"A","n","t","i","-","s","e","n","s","e"," ","I","n","h","i","b","i",
      "t","o","r","."," ","i","n","h","i","b","i","t","3">>

\* "Shows anti-viral activity. Unrelated note."
anti_viral_unrelated ==
    <<"S","h","o","w","s"," ","a","n","t","i","-","v","i","r","a","l"," ",
      "a","c","t","i","v","i","t","y","."," ","U","n","r","e","l","a","t",
      "e","d"," ","n","o","t","e",".">>

\* "Shows anti-viral activity."
anti_viral_period ==
    <<"S","h","o","w","s"," ","a","n","t","i","-","v","i","r","a","l"," ",
      "a","c","t","i","v","i","t","y",".">>

\* "Shows anti-viral activity"
anti_viral ==
    <<"S","h","o","w","s"," ","a","n","t","i","-","v","i","r","a","l"," ",
      "a","c","t","i","v","i","t","y">>

EntryKeywords ==
    MakeEntry(<< <<"K">> >>, <<antimicrobial_agent, no_known_function>>,
              <<Anti_Inhibitor_inhibit3>>, 50)

Entry30 == MakeEntry(<<>>, <<anti_viral_unrelated>>, <<>>, 30)

Entry200 == MakeEntry(<<>>, <<anti_viral_period>>, <<>>, 200)

ExampleEntries == {EntryKeywords, Entry30, Entry200}

KeywordFile == MakeFile(0, <<EntryKeywords>>, 1)

ScenarioFile == MakeFile(0, <<Entry30, Entry200>>, 1)

\* the runs on the files of the examples
ExampleInit ==
    \E f \in {KeywordFile, ScenarioFile}, k \in 0..MaxAdded,
       L \in MaxLengths, c0 \in InitialCorpora :
      \E B \in {Len(f) + 1}
                 \cup { Max({Len(e) : e \in ExampleEntries}) + d : d \in {0, 1} } :
        Starts(InitState(f, B, k, L, c0))

ExampleSpec == ExampleInit /\ [][Next]_vars

\* text holds "anti" or "inhibit" at some position, letter for letter
HasTrigger(text) ==
    \E p \in 1..Len(text) :
        \/ /\ p + 3 <= Len(text)
           /\ text[p] = "a" /\ text[p + 1] = "n"
           /\ text[p + 2] = "t" /\ text[p + 3] = "i"
        \/ /\ p + 6 <= Len(text)
           /\ text[p] = "i" /\ text[p + 1] = "n" /\ text[p + 2] = "h"
           /\ text[p + 3] = "i" /\ text[p + 4] = "b" /\ text[p + 5] = "i"
           /\ text[p + 6] = "t"

(***************************************************************************)
(* C15: is_useful_for_corpus is true of a sentence exactly when the        *)
(* sentence holds "anti" or "inhibit", case-sensitively: true of "This     *)
(* peptide is an antimicrobial agent.", false of "This peptide has no      *)
(* known function."; and every entry appended by a run holds one of the    *)
(* two.                                                                    *)
(***************************************************************************)
C15_KeywordFilter ==
    /\ is_useful_for_corpus(antimicrobial_agent)
    /\ ~is_useful_for_corpus(no_known_function)
    /\ pc \in {"comments", "titles"}
          => (is_useful_for_corpus(Head(Head(todo)))
                <=> HasTrigger(Head(Head(todo))))
    /\ \A i \in Appended : HasTrigger(corpus[i].text)

\* both sentences of the example went through the filter: the first was
\* appended, the second and the capitalised title were not
C15_Witness ==
    /\ file = KeywordFile
    /\ pc = "returned" /\ exc = "none" /\ ntotal = 4
    /\ \E i \in Appended : corpus[i].text = antimicrobial_agent
    /\ \A i \in Appended : corpus[i].text # no_known_function
    /\ Added = 2

\* the run of the end-to-end scenario has returned, uninterrupted
ScenarioDone ==
    /\ file = ScenarioFile
    /\ max_length = 100
    /\ corpus_size = 0
    /\ max_added >= 1
    /\ pc = "returned" /\ exc = "none"

(***************************************************************************)
(* C16: the run over the two entries of the scenario (length 30 with the   *)
(* comment "Shows anti-viral activity. Unrelated note.", length 200 with   *)
(* the comment "Shows anti-viral activity."), with max_length = 100 and an *)
(* empty corpus, returns exactly one entry: text "Shows anti-viral         *)
(* activity", type "comment".  Unless the cap stopped the scan behind the  *)
(* first entry, both entries were handed to the extractor and the second   *)
(* was left out by the length filter.                                      *)
(***************************************************************************)
C16_EndToEnd ==
    ScenarioDone
        => /\ returned = <<corpus>>
           /\ Deref(corpus, heap)
                = << [text |-> anti_viral,
                      meta |-> [source |-> "Uniprot", type |-> "comment"]] >>
           /\ max_added >= 2 => /\ emitted = FileRecords(file)
                                /\ nuniprot_entries = 2
                                /\ ntotal = 2

C16_Witness ==
    ScenarioDone /\ max_added >= 2 /\ Len(corpus) = 1 /\ Len(emitted) = 2

\* the run has ended: it has returned or an exception has left it
Terminated == pc \in {"returned", "raised"}

\* the scan over the small files with no header or the longest one, with
\* every buffer size, where the program keeps running: as long
\* as a step can be taken, a step is eventually taken.  This is weak
\* fairness of Next, with ENABLED <<Next>>_vars written as ~Terminated:
\* KeyboardInterrupt can be taken at every pc of Running, Return at the two
\* others, and both change pc
FairScanSpec ==
    /\ \E f \in { MakeFile(h, es, g) :
                       h \in {0, MaxHeader},
                       es \in SeqsUpTo(ScanEntries, MaxScanEntries),
                       g \in GapSizes },
          k \in {1, MaxAdded} :
         \E B \in 1..(Len(f) + 1) :
           Starts(InitState(f, B, k, 100, <<>>))
    /\ [][Next]_vars
    /\ ([]<>Terminated \/ []<><<Next>>_vars)

(***************************************************************************)
(* C17: the scan terminates, for every file and every buffer size of at    *)
(* least one byte.  Every load after the first starts at a file offset     *)
(* strictly greater than the offset of the load before it and not beyond   *)
(* the end of the file; the rewind is taken only when a record of the load *)
(* was emitted, and sets the file position behind that record and beyond   *)
(* the start of the load.                                                  *)
(***************************************************************************)
C17_Terminates ==
    /\ <>Terminated
    /\ [](current_position <= size /\ fp <= size /\ nloads <= size + 1)
    /\ [][nloads' = nloads + 1
            => /\ current_position' = fp
               /\ nloads >= 1 => current_position' > current_position]_vars
    /\ [][~Rewound /\ Rewound'
            => /\ counter >= 1
               /\ emitted # <<>>
               /\ emitted[Len(emitted)].offset >= current_position
               /\ fp' >= emitted[Len(emitted)].offset
                           + Len(emitted[Len(emitted)].xml)
               /\ fp' > current_position]_vars

\* a load has emitted a record and found the next entry cut by its end: the
\* file position was set back to the start of that entry, beyond the start
\* of the load and behind the emitted record
C17_Witness ==
    /\ Rewound
    /\ counter >= 1
    /\ Len(emitted) = 1
    /\ fp >= emitted[1].offset + Len(emitted[1].xml)
    /\ fp = current_position + begin_pos
    /\ fp > current_position

\* x ends with the end tag
EndsWithEndTag(x) ==
    /\ Len(x) >= Len(end_tag)
    /\ SliceFrom(x, Len(x) - Len(end_tag)) = end_tag

(***************************************************************************)
(* C18: once the number of accepted sentences has reached max_added, no    *)
(* record is handed to the extractor any more and no load is read: a       *)
(* record is emitted, and a load read, only while the number is below the  *)
(* cap.  Every emitted record is a complete span of the file, from a start *)
(* tag to the end of the first end tag behind it.                          *)
(***************************************************************************)
C18_StopsAtCap ==
    /\ [](\A i \in 1..Len(emitted) :
             /\ Find(file, start_tag, emitted[i].offset) = emitted[i].offset
             /\ EndsWithEndTag(emitted[i].xml)
             /\ emitted[i] = RecordAt(file, emitted[i].offset))
    /\ [][Len(emitted') > Len(emitted) \/ nloads' > nloads
            => nused < max_added]_vars
    /\ [][nused >= max_added
            => emitted' = emitted /\ nloads' = nloads]_vars

\* the run has returned because of the cap, with records left in the file
C18_Witness ==
    /\ pc = "returned" /\ exc = "none"
    /\ max_added >= 1
    /\ nused >= max_added
    /\ Len(emitted) >= 1
    /\ Len(emitted) < Len(FileRecords(file))

\* the final state of the run on the same file, buffer size, threshold and
\* initial corpus with a cap that is never reached: a file has fewer
\* sentences than bytes
UncappedRun ==
    RunToEnd(InitState(file, buffer_size, Len(file), max_length,
                       InitialCorpus))

\* the entries a run has appended, given its final corpus
AppendedBy(corpus_, heap_) ==
    SubSeq(Deref(corpus_, heap_), corpus_size + 1, Len(corpus_))

(***************************************************************************)
(* C19: when a run with max_added = k has ended, uninterrupted, the        *)
(* entries it has appended to the corpus list are the first min(k, n) of   *)
(* the n entries that the run with the same file, buffer size, max_length  *)
(* and initial corpus and a cap never reached appends to it, in the same   *)
(* order and with the same metadata.  The list is the caller's: a run      *)
(* ended by the fatal error has appended what it appended before.          *)
(***************************************************************************)
C19_CapTruncates ==
    Terminated /\ exc # "KeyboardInterrupt"
        => LET u == UncappedRun
               all == AppendedBy(u.corpus, u.heap)
               k == IF max_added <= Len(all) THEN max_added ELSE Len(all)
           IN /\ u.pc \in {"returned", "raised"}
              /\ u.nused < u.max_added \/ Len(file) = 0
              /\ AppendedBy(corpus, heap) = SubSeq(all, 1, k)

\* the cap has cut the result: two entries were appended and the uncapped
\* run appends more
C19_Witness ==
    /\ pc = "returned" /\ exc = "none"
    /\ max_added = 2
    /\ Added = 2
    /\ Len(UncappedRun.corpus) - corpus_size >= 4

\* the texts of a list with the type of the pass that visits them
Typed(texts, type) ==
    [i \in 1..Len(texts) |-> [text |-> texts[i], type |-> type]]

\* the sentences of a record in their order of occurrence: those of its
\* comments, then those of its titles
RecordSentences(xml) ==
    Typed(Concat(Sentences(comment_text_pattern, xml)), "comment")
      \o Typed(Concat(Sentences(article_title_pattern, xml)), "article")

\* the sentences of the first n emitted records that pass the length test,
\* in scan order
RECURSIVE ScanSentences(_)
ScanSentences(n) ==
    IF n = 0 THEN <<>>
    ELSE ScanSentences(n - 1)
           \o (IF DeclaredLength(emitted[n].xml) < max_length
                 THEN RecordSentences(emitted[n].xml)
                 ELSE <<>>)

\* of a list of typed sentences, those that hold a trigger, at their first
\* occurrence, unless their text is in seen
RECURSIVE FirstOccurrences(_, _)
FirstOccurrences(cands, seen) ==
    IF cands = <<>> THEN <<>>
    ELSE IF HasTrigger(Head(cands).text) /\ Head(cands).text \notin seen
      THEN <<Head(cands)>>
             \o FirstOccurrences(Tail(cands), seen \cup {Head(cands).text})
    ELSE FirstOccurrences(Tail(cands), seen)

\* the text and the type of the entries appended by the run
AppendedTyped ==
    [i \in 1..Added |->
       [text |-> corpus[corpus_size + i].text,
        type |-> heap[corpus[corpus_size + i].meta].type]]

(***************************************************************************)
(* C20: the entries appended by the run are in scan order: records are     *)
(* emitted by ascending file offset, and whenever no record is half        *)
(* processed the appended entries are, up to the cap, the sentences of the *)
(* emitted records taken record by record, within a record the comments    *)
(* (type "comment") before the titles (type "article"), within a pass in   *)
(* their order of occurrence, each text at its first occurrence only: a    *)
(* sentence of both a comment and a title of a record is kept once, with   *)
(* type "comment".                                                         *)
(***************************************************************************)
C20_ScanOrder ==
    /\ \A i, j \in 1..Len(emitted) :
          i < j => emitted[i].offset < emitted[j].offset
    /\ pc \notin {"comments", "titles"} /\ exc # "KeyboardInterrupt"
         => LET expected ==
                  FirstOccurrences(ScanSentences(Len(emitted)),
                                   { corpus[i].text : i \in 1..corpus_size })
            IN AppendedTyped
                 = SubSeq(expected, 1,
                          IF max_added <= Len(expected) THEN max_added
                          ELSE Len(expected))

\* the record with "anti1" in a comment and in a title was followed by
\* one with "anti1" and "anti5": "anti1" was kept once, as a comment, before
\* the title sentence "inhibit3", and "anti5" of the later record is last
C20_Witness ==
    /\ pc = "seek"
    /\ Len(emitted) = 2 /\ emitted[1].xml = EntryPQ /\ emitted[2].xml = EntryN
    /\ corpus_size = 0
    /\ AppendedTyped
         = << [text |-> anti1, type |-> "comment"],
              [text |-> anti2, type |-> "comment"],
              [text |-> inhibit3, type |-> "article"],
              [text |-> anti5, type |-> "comment"] >>

====
